---- MODULE Spec2Model ----
(***************************************************************************)
(* agentweb: the WebSocket relay between a browser client and the Agent    *)
(* SDK session (server/server.ts, server/query-handler.ts).                *)
(*                                                                         *)
(* The SDK session (SDKSession: send / stream / close) is an external      *)
(* collaborator.  The model lets it do what the relay's own code and tests *)
(* provide for: send() resolves or rejects, stream() yields an event,      *)
(* ends, or throws.  It is well behaved otherwise: it yields events only   *)
(* for a prompt it was sent, one result event per prompt, and close()      *)
(* returns normally.                                                       *)
(***************************************************************************)
EXTENDS Naturals, Sequences, FiniteSets, TLC

VARIABLES
    readyState,      \* ws.readyState of each connection
    activeSessions,  \* the Map<WebSocket, SessionController>; 0 = no entry
    controllers,     \* every SessionController ever constructed, by id
    out,             \* what ws.send() has written to each connection
    arrived,         \* history: backend events consumed by streamMessages, per connection
    payloadOptions,  \* message.options of the payloads the client sends in this run
    sdkStream,       \* the events transformSDKMessage was called with, in call order
    transformed,     \* the array each of those calls returned
    files,           \* the files of SESSIONS_DIR: a set of [path, text]
    hook,            \* the state, refs and timers of useWebSocket, and the sockets it opened
    happened         \* history: what happened to the hook, in order

vars == <<readyState, activeSessions, controllers, out, arrived,
          payloadOptions, sdkStream, transformed, files, hook, happened>>

\* The calls of the transformer that are looked at on their own.
xfVars == <<sdkStream, transformed>>

\* What no step of the relay changes.
fixedVars == <<payloadOptions, sdkStream, transformed, files, hook, happened>>

(***************************************************************************)
(* Bounds of the model.                                                    *)
(***************************************************************************)
MaxLog == 3      \* messages on one wire, and backend events consumed for it
MaxBlocks == 2   \* content blocks of one backend event, errors of one result
MaxCalls == 2    \* calls of the transformer that are looked at together
MaxIsoLog == 2   \* messages on the wires of two connections together

Conns == {"ws1"}

\* No browser has mounted the hook and SESSIONS_DIR is empty.
NoBrowser == files = {} /\ hook = [mounted |-> FALSE] /\ happened = << >>

NoCtl == 0

(***************************************************************************)
(* JavaScript values that the transformer inspects with typeof /           *)
(* Array.isArray are tagged with their kind.                               *)
(***************************************************************************)
JsString(s) == [kind |-> "string", v |-> s]
JsArray(a) == [kind |-> "array", v |-> a]
JsNumber(n) == [kind |-> "number", v |-> n]
JsNull == [kind |-> "null"]
JsUndefined == [kind |-> "undefined"]

Has(r, f) == f \in DOMAIN r

\* Array.prototype.join('\n') over a sequence of strings; the separator is
\* kept as the two characters "\n" of the TLA+ string.
RECURSIVE JoinNl(_)
JoinNl(s) ==
    IF Len(s) = 0 THEN ""
    ELSE IF Len(s) = 1 THEN s[1]
    ELSE s[1] \o "\n" \o JoinNl(Tail(s))

\* JSON.stringify of a value that is neither a string nor an array; it
\* gives no string for undefined.
Stringify(v) ==
    CASE v.kind = "number" -> [defined |-> TRUE, s |-> ToString(v.v)]
      [] v.kind = "null" -> [defined |-> TRUE, s |-> "null"]
      [] v.kind = "object" -> [defined |-> TRUE, s |-> "{" \o v.v \o "}"]
      [] OTHER -> [defined |-> FALSE]

\* A property whose value is undefined is the same as an absent one, on the
\* wire (JSON.stringify drops it) and under structural equality.
WithField(r, f, present, value) ==
    IF present THEN [k \in DOMAIN r \cup {f} |-> IF k = f THEN value ELSE r[k]]
    ELSE r

CopyField(r, f, from) ==
    WithField(r, f, Has(from, f), IF Has(from, f) THEN from[f] ELSE "")

EmptyObject == {}

\* A case 'assistant' that does not test block.text and block.thinking.
AssistantBlockKeepsEmpty(block) ==
    IF block.type = "text"
    THEN << CopyField([type |-> "text"], "text", block) >>
    ELSE IF block.type = "tool_use"
    THEN << CopyField(CopyField(
               [type |-> "tool_use",
                input |-> IF Has(block, "input") THEN block.input ELSE EmptyObject],
               "id", block), "name", block) >>
    ELSE IF block.type = "thinking"
    THEN << CopyField([type |-> "thinking"], "thinking", block) >>
    ELSE << >>

\* case 'assistant': one content block
AssistantBlock(block) ==
    IF block.type = "text" /\ Has(block, "text") /\ block.text # ""
    THEN << [type |-> "text", content |-> block.text] >>
    ELSE IF block.type = "tool_use"
    THEN << CopyField(CopyField(
               [type |-> "tool_use",
                input |-> IF Has(block, "input") THEN block.input ELSE EmptyObject],
               "id", block), "name", block) >>
    ELSE IF block.type = "thinking" /\ Has(block, "thinking") /\ block.thinking # ""
    THEN << [type |-> "thinking", content |-> block.thinking] >>
    ELSE << >>

\* block.content.filter(c => c.type === 'text').map(c => c.text ?? '')
RECURSIVE TextsOf(_)
TextsOf(blocks) ==
    IF Len(blocks) = 0 THEN << >>
    ELSE IF Head(blocks).type = "text"
    THEN << IF Has(Head(blocks), "text") THEN Head(blocks).text ELSE "" >>
            \o TextsOf(Tail(blocks))
    ELSE TextsOf(Tail(blocks))

ResultContent(block) ==
    IF ~Has(block, "content") THEN Stringify(JsUndefined)
    ELSE IF block.content.kind = "string" THEN [defined |-> TRUE, s |-> block.content.v]
    ELSE IF block.content.kind = "array"
    THEN [defined |-> TRUE, s |-> JoinNl(TextsOf(block.content.v))]
    ELSE Stringify(block.content)

\* A case 'user' that copies block.is_error without the ?? false.
UserBlockNoDefault(block) ==
    IF block.type = "tool_result"
    THEN LET rc == ResultContent(block)
         IN << WithField(
                 CopyField(CopyField([type |-> "tool_result"], "is_error", block),
                           "tool_use_id", block),
                 "content", rc.defined, IF rc.defined THEN rc.s ELSE "") >>
    ELSE << >>

\* case 'user': one content block
UserBlock(block) ==
    IF block.type = "tool_result"
    THEN LET rc == ResultContent(block)
         IN << WithField(
                 CopyField(
                   [type |-> "tool_result",
                    is_error |-> IF Has(block, "is_error") THEN block.is_error ELSE FALSE],
                   "tool_use_id", block),
                 "content", rc.defined, IF rc.defined THEN rc.s ELSE "") >>
    ELSE << >>

RECURSIVE AssistantBlocks(_)
AssistantBlocks(content) ==
    IF Len(content) = 0 THEN << >>
    ELSE AssistantBlock(Head(content)) \o AssistantBlocks(Tail(content))

RECURSIVE UserBlocks(_)
UserBlocks(content) ==
    IF Len(content) = 0 THEN << >>
    ELSE UserBlock(Head(content)) \o UserBlocks(Tail(content))

\* A loop over message.errors that stops after the first one.
ErrorMessagesFirst(errors) ==
    IF Len(errors) = 0 THEN << >> ELSE << [type |-> "error", error |-> Head(errors)] >>

\* for (const error of message.errors) messages.push({ type: 'error', error })
RECURSIVE ErrorMessages(_)
ErrorMessages(errors) ==
    IF Len(errors) = 0 THEN << >>
    ELSE << [type |-> "error", error |-> Head(errors)] >> \o ErrorMessages(Tail(errors))

\* message.message?.content when it is an array, else nothing to iterate
ContentArray(message) ==
    IF Has(message, "message") /\ Has(message.message, "content")
    THEN message.message.content
    ELSE << >>

\* A case 'result' that also surfaces the summary string of a success.
ResultMessagesWithSummary(message) ==
    IF Has(message, "is_error") /\ message.is_error /\ Has(message, "errors")
    THEN ErrorMessages(message.errors)
    ELSE IF Has(message, "result")
    THEN << [type |-> "text", content |-> message.result] >>
    ELSE << >>

\* case 'result': if (message.is_error && message.errors) one error each
ResultMessages(message) ==
    IF Has(message, "is_error") /\ message.is_error /\ Has(message, "errors")
    THEN ErrorMessages(message.errors)
    ELSE << >>

\* A transformer that keeps what it has returned and returns nothing for an
\* event it was already called with.
transformSDKMessageOnce(message) ==
    IF \E i \in 1..Len(sdkStream) : sdkStream[i] = message
    THEN << >>
    ELSE CASE message.type = "assistant" -> AssistantBlocks(ContentArray(message))
           [] message.type = "user" -> UserBlocks(ContentArray(message))
           [] message.type = "result" -> ResultMessages(message)
           [] OTHER -> << >>

\* function transformSDKMessage(message): messages = []; switch; return messages
transformSDKMessage(message) ==
    CASE message.type = "assistant" -> AssistantBlocks(ContentArray(message))
      [] message.type = "user" -> UserBlocks(ContentArray(message))
      [] message.type = "result" -> ResultMessages(message)
      [] message.type = "system" -> << >>
      [] OTHER ->
           IF Has(message, "content") /\ message.content.kind # "undefined"
           THEN IF message.content.kind = "string"
                THEN << [type |-> "text", content |-> message.content.v] >>
                ELSE LET js == Stringify(message.content)
                     IN << WithField([type |-> "text"], "content", js.defined,
                                     IF js.defined THEN js.s ELSE "") >>
           ELSE << >>

(***************************************************************************)
(* The backend events the relay is driven with.                            *)
(***************************************************************************)
AssistantText ==
    [type |-> "assistant",
     message |-> [content |-> << [type |-> "text", text |-> "X"] >>]]

AssistantToolUse ==
    [type |-> "assistant",
     message |-> [content |-> << [type |-> "tool_use", id |-> "t1", name |-> "Read",
                                  input |-> {<<"file_path", "/a.txt">>}] >>]]

UserToolResult ==
    [type |-> "user",
     message |-> [content |-> << [type |-> "tool_result", tool_use_id |-> "t1",
                                  content |-> JsString("hello")] >>]]

SystemInit == [type |-> "system", subtype |-> "init"]

ResultSuccess == [type |-> "result", subtype |-> "success", result |-> "X"]

ResultError ==
    [type |-> "result", subtype |-> "error_during_execution", is_error |-> TRUE,
     errors |-> <<"e1">>]

ContentEvents == {AssistantText}
ResultEvents == {ResultSuccess, ResultError}

(***************************************************************************)
(* State of the relay.                                                     *)
(***************************************************************************)
\* One entry of the wire of a connection: the message, and (history) the
\* controller and turn it was produced for and the code that produced it.
Wire(msg, c, t, src) == [msg |-> msg, ctl |-> c, turn |-> t, src |-> src]

CtlIds == 1..Len(controllers)

\* The turn the backend is working on: the oldest prompt it was sent that
\* it has neither refused nor answered with a result event.  0 if none.
ActiveTurn(c) ==
    LET ts == controllers[c].turns
        open == {i \in 1..Len(ts) : ts[i].send # "rejected" /\ ~ts[i].done}
    IN IF open = {} THEN 0 ELSE CHOOSE i \in open : \A j \in open : i <= j

\* sendToClient that puts the message ahead of what was already written.
sendToClientUnshift(ws, log, entries) ==
    IF readyState[ws] = "OPEN" THEN entries \o log ELSE log

\* const sendToClient = (msg) => { if (ws.readyState === OPEN) ws.send(...) }
sendToClient(ws, log, entries) ==
    IF readyState[ws] = "OPEN" THEN log \o entries ELSE log

\* createSession / resumeSession: the controller returned, its background
\* streamMessages loop running.
\* message.options when the client gives options, and when it gives none
\* (which is also createSession called without the argument).
MessageOptions == [kind |-> "object", model |-> "claude-opus-4"]
NoOptions == JsUndefined

\* model: options?.model || 'claude-sonnet-4-20250514'
sessionModel(options) ==
    IF options.kind = "object" /\ Has(options, "model") /\ options.model # ""
    THEN options.model
    ELSE "claude-sonnet-4-20250514"

NewController(ws, kind, sessionId, options) ==
    [ws |-> ws, kind |-> kind, closed |-> 0, stream |-> "running",
     sessionId |-> sessionId, turns |-> << >>, model |-> sessionModel(options)]

\* A close that never reaches session.close().
closeNothing(ctls, c) == ctls

\* controller.close(): () => session.close()
close(ctls, c) ==
    [ctls EXCEPT ![c].closed = @ + 1]

\* sendMessage that calls session.send without announcing the turn.
sendMessageEmitsNoStart(ctls, c) == << >>

\* What sendMessage hands to onMessage before it calls session.send.
sendMessageEmits(ctls, c) ==
    << Wire(WithField([type |-> "start"], "session_id",
                      ctls[c].sessionId # "", ctls[c].sessionId),
            c, Len(ctls[c].turns) + 1, "sendMessage") >>

\* sendMessage up to its await: the start message, then session.send(prompt).
sendMessage(ctls, c) ==
    [ctls EXCEPT ![c].turns =
        Append(@, [send |-> "pending", events |-> 0, done |-> FALSE])]

\* A handler that builds the controller and forgets activeSessions.set.
bindNothing(reg, ws, c) == reg

\* activeSessions.set(ws, controller)
bind(reg, ws, c) == [reg EXCEPT ![ws] = c]

\* error instanceof Error ? error.message : 'Unknown error'
ErrorTextUnknown(failure) == "Unknown error"

ErrorText(failure) ==
    IF failure.isError THEN failure.message ELSE "Unknown error"

\* What a failing session.send(prompt) rejects with.
SendFailure == [isError |-> TRUE, message |-> "Send failed"]

ErrorEntry(text, c, t, src) == Wire([type |-> "error", error |-> text], c, t, src)

Room(ws, n) == readyState[ws] = "OPEN" => Len(out[ws]) + n <= MaxLog

\* The socket delivers payloads while it is open; n is the number of
\* messages the handler is about to write.
CanHandle(ws, n) == readyState[ws] = "OPEN" /\ Len(out[ws]) + n <= MaxLog

Init ==
    /\ readyState = [ws \in Conns |-> "OPEN"]
    /\ activeSessions = [ws \in Conns |-> NoCtl]
    /\ controllers = << >>
    /\ out = [ws \in Conns |-> << >>]
    /\ arrived = [ws \in Conns |-> << >>]
    /\ payloadOptions = NoOptions
    /\ sdkStream = << >>
    /\ transformed = << >>
    /\ NoBrowser

(***************************************************************************)
(* ws.on('message'): one action per kind of payload.                       *)
(***************************************************************************)
\* A handler that closes the bound controller of every connection.
ClosedEveryBound(ws) ==
    [c \in 1..Len(controllers) |->
        IF \E w \in DOMAIN activeSessions : activeSessions[w] = c
        THEN [controllers[c] EXCEPT !.closed = @ + 1]
        ELSE controllers[c]]

\* A handler that leaves the existing controller as it is.
ClosedNone(ws) == controllers

\* The existing controller, if any, is closed before the new one is built.
ClosedExisting(ws) ==
    IF activeSessions[ws] # NoCtl THEN close(controllers, activeSessions[ws])
    ELSE controllers

\* case 'create_session'.  built = FALSE: createSession throws.
CreateSession(ws, built) ==
    /\ CanHandle(ws, 1)
    /\ IF built
       THEN /\ controllers' = Append(ClosedExisting(ws), NewController(ws, "create", "", payloadOptions))
            /\ activeSessions' = bind(activeSessions, ws, Len(controllers) + 1)
            /\ out' = [out EXCEPT ![ws] =
                          sendToClient(ws, @, << Wire([type |-> "session_created"],
                                                     Len(controllers) + 1, 0, "server") >>)]
       ELSE /\ controllers' = ClosedExisting(ws)
            /\ UNCHANGED activeSessions
            /\ out' = [out EXCEPT ![ws] =
                          sendToClient(ws, @, << ErrorEntry("create failed", 0, 0, "server") >>)]
    /\ UNCHANGED <<readyState, arrived>>
    /\ UNCHANGED fixedVars

\* A reply to a resume without id that does not name the missing field.
MissingIdTextGeneric == "Unknown error"

\* error: 'Missing sdkSessionId for resume'
MissingIdText == "Missing sdkSessionId for resume"

\* case 'resume_session'.  sdkSessionId = "": the field is missing.
ResumeSession(ws, sdkSessionId, built) ==
    /\ CanHandle(ws, 1)
    /\ IF sdkSessionId = ""
       THEN /\ out' = [out EXCEPT ![ws] =
                          sendToClient(ws, @,
                              << ErrorEntry(MissingIdText, 0, 0, "server") >>)]
            /\ UNCHANGED <<controllers, activeSessions>>
       ELSE IF built
       THEN /\ controllers' =
                  Append(ClosedExisting(ws), NewController(ws, "resume", sdkSessionId, payloadOptions))
            /\ activeSessions' = bind(activeSessions, ws, Len(controllers) + 1)
            /\ out' = [out EXCEPT ![ws] =
                          sendToClient(ws, @,
                              << Wire([type |-> "session_resumed", sdkSessionId |-> sdkSessionId],
                                      Len(controllers) + 1, 0, "server") >>)]
       ELSE /\ controllers' = ClosedExisting(ws)
            /\ UNCHANGED activeSessions
            /\ out' = [out EXCEPT ![ws] =
                          sendToClient(ws, @, << ErrorEntry("resume failed", 0, 0, "server") >>)]
    /\ UNCHANGED <<readyState, arrived>>
    /\ UNCHANGED fixedVars

\* let controller = activeSessions.get(ws); auto-create if none; then
\* controller.sendMessage(prompt) up to its await.
Forward(ws, options, built) ==
    IF activeSessions[ws] # NoCtl
    THEN LET c == activeSessions[ws]
         IN /\ built
            /\ controllers' = sendMessage(controllers, c)
            /\ out' = [out EXCEPT ![ws] = sendToClient(ws, @, sendMessageEmits(controllers, c))]
            /\ UNCHANGED activeSessions
    ELSE IF built
    THEN LET c == Len(controllers) + 1
             made == Append(controllers, NewController(ws, "create", "", options))
         IN /\ controllers' = sendMessage(made, c)
            /\ activeSessions' = bind(activeSessions, ws, c)
            /\ out' = [out EXCEPT ![ws] = sendToClient(ws, @, sendMessageEmits(made, c))]
    ELSE /\ out' = [out EXCEPT ![ws] =
                       sendToClient(ws, @, << ErrorEntry("create failed", 0, 0, "server") >>)]
         /\ UNCHANGED <<controllers, activeSessions>>

\* A send_message that skips the check of the prompt.
promptMissingNever(prompt) == FALSE

\* if (!message.prompt)
promptMissing(prompt) == prompt = ""

\* case 'send_message'.  prompt = "": the field is missing or empty.
SendMessage(ws, prompt, built) ==
    /\ CanHandle(ws, 1)
    /\ IF promptMissing(prompt)
       THEN /\ built
            /\ out' = [out EXCEPT ![ws] =
                          sendToClient(ws, @,
                              << ErrorEntry("Missing required field: prompt", 0, 0, "server") >>)]
            /\ UNCHANGED <<controllers, activeSessions>>
       ELSE Forward(ws, payloadOptions, built)
    /\ UNCHANGED <<readyState, arrived>>
    /\ UNCHANGED fixedVars

\* case 'stop' without its activeSessions.delete(ws).
stopEntryKept(ws) == activeSessions[ws]

\* What case 'stop' leaves in the registry for the connection.
stopEntry(ws) == NoCtl

\* A stop that complains when there is nothing to stop.
StopMessageStrict(ws) ==
    IF activeSessions[ws] = NoCtl
    THEN [type |-> "error", error |-> "No active session"]
    ELSE [type |-> "end", stop_reason |-> "user_stopped"]

\* sendToClient({ type: 'end', stop_reason: 'user_stopped' })
StopMessage(ws) == [type |-> "end", stop_reason |-> "user_stopped"]

\* case 'stop'
Stop(ws) ==
    /\ CanHandle(ws, 1)
    /\ LET c == activeSessions[ws]
       IN /\ controllers' = ClosedExisting(ws)
          /\ activeSessions' = [activeSessions EXCEPT ![ws] = stopEntry(ws)]
          /\ out' = [out EXCEPT ![ws] =
                        sendToClient(ws, @,
                            << Wire(StopMessage(ws), c,
                                    IF c = NoCtl THEN 0 ELSE Len(controllers[c].turns),
                                    "stop") >>)]
    /\ UNCHANGED <<readyState, arrived>>
    /\ UNCHANGED fixedVars

\* default: a payload without a known type is a send_message if it has a prompt.
Legacy(ws, prompt, built) ==
    /\ CanHandle(ws, IF prompt = "" THEN 0 ELSE 1)
    /\ IF prompt = ""
       THEN built /\ UNCHANGED <<controllers, activeSessions, out>>
       ELSE Forward(ws, NoOptions, built)
    /\ UNCHANGED <<readyState, arrived>>
    /\ UNCHANGED fixedVars

\* A catch that also tears the session down.
MalformedDrops(ws) ==
    /\ CanHandle(ws, 1)
    /\ out' = [out EXCEPT ![ws] =
                  sendToClient(ws, @, << ErrorEntry("Unexpected token", 0, 0, "server") >>)]
    /\ controllers' = ClosedExisting(ws)
    /\ activeSessions' = [activeSessions EXCEPT ![ws] = NoCtl]
    /\ UNCHANGED <<readyState, arrived>>
    /\ UNCHANGED fixedVars

\* JSON.parse throws: the catch of the handler reports it.
Malformed(ws) ==
    /\ CanHandle(ws, 1)
    /\ out' = [out EXCEPT ![ws] =
                  sendToClient(ws, @, << ErrorEntry("Unexpected token", 0, 0, "server") >>)]
    /\ UNCHANGED <<readyState, activeSessions, controllers, arrived>>
    /\ UNCHANGED fixedVars

\* ws.on('close') without its activeSessions.delete(ws).
wsOnCloseEntryKept(ws) == activeSessions[ws]

\* What ws.on('close') leaves in the registry for the connection.
wsOnCloseEntry(ws) == NoCtl

\* ws.on('close'): the transport has closed the socket.
wsOnClose(ws) ==
    /\ readyState[ws] = "OPEN"
    /\ readyState' = [readyState EXCEPT ![ws] = "CLOSED"]
    /\ controllers' = ClosedExisting(ws)
    /\ activeSessions' = [activeSessions EXCEPT ![ws] = wsOnCloseEntry(ws)]
    /\ UNCHANGED <<out, arrived>>
    /\ UNCHANGED fixedVars

(***************************************************************************)
(* The awaited session.send(prompt) of sendMessage settles.                *)
(***************************************************************************)
SendResolve(c, i) ==
    /\ c \in CtlIds /\ i \in 1..Len(controllers[c].turns)
    /\ controllers[c].turns[i].send = "pending"
    /\ controllers' = [controllers EXCEPT ![c].turns[i].send = "resolved"]
    /\ UNCHANGED <<readyState, activeSessions, out, arrived>>
    /\ UNCHANGED fixedVars

\* The catch of sendMessage: { type: 'error', error: error.message }
SendReject(c, i) ==
    /\ c \in CtlIds /\ i \in 1..Len(controllers[c].turns)
    /\ controllers[c].turns[i].send = "pending"
    /\ controllers[c].turns[i].events = 0 /\ ~controllers[c].turns[i].done
    /\ Room(controllers[c].ws, 1)
    /\ controllers' = [controllers EXCEPT ![c].turns[i].send = "rejected"]
    /\ out' = [out EXCEPT ![controllers[c].ws] =
                  sendToClient(controllers[c].ws, @,
                               << ErrorEntry(ErrorText(SendFailure), c, i, "sendMessage") >>)]
    /\ UNCHANGED <<readyState, activeSessions, arrived>>
    /\ UNCHANGED fixedVars

(***************************************************************************)
(* streamMessages: the background loop over session.stream().              *)
(***************************************************************************)
\* if (message.type === 'result') onMessage({ type: 'end', stop_reason: 'end_turn' })
endOfTurn(message) ==
    IF message.type = "result"
    THEN << [type |-> "end", stop_reason |-> "end_turn"] >>
    ELSE << >>

\* The loop body with the end-of-turn check ahead of the forwarding loop.
streamEmitsEndFirst(message) == endOfTurn(message) \o transformSDKMessage(message)

\* The body of the loop for one event: what it hands to onMessage, in order.
streamEmits(message) == transformSDKMessage(message) \o endOfTurn(message)

Tagged(msgs, c, t, src) == [k \in 1..Len(msgs) |-> Wire(msgs[k], c, t, src)]

\* One iteration of for await (const message of session.stream()).
StreamYield(c, message) ==
    /\ c \in CtlIds
    /\ controllers[c].stream = "running"
    /\ ActiveTurn(c) # 0
    /\ LET t == ActiveTurn(c)
           ws == controllers[c].ws
       IN /\ Len(arrived[ws]) < MaxLog
          /\ Room(ws, Len(streamEmits(message)))
          /\ controllers' =
                [controllers EXCEPT
                    ![c].turns[t].events = IF message.type = "result" THEN @ ELSE @ + 1,
                    ![c].turns[t].done = (message.type = "result"),
                    ![c].sessionId = IF @ = "" THEN "sdk-new" ELSE @]
          /\ out' = [out EXCEPT ![ws] =
                        sendToClient(ws, @, Tagged(streamEmits(message), c, t, "stream"))]
          /\ arrived' = [arrived EXCEPT ![ws] =
                            Append(@, <<c, t, message>>)]
    /\ UNCHANGED <<readyState, activeSessions>>
    /\ UNCHANGED fixedVars

\* session.stream() throws, during a turn or once the session is closed:
\* the catch of streamMessages reports it and the loop is over.
StreamThrow(c) ==
    /\ c \in CtlIds
    /\ controllers[c].stream = "running"
    /\ ActiveTurn(c) # 0 \/ controllers[c].closed > 0
    /\ Room(controllers[c].ws, 1)
    /\ controllers' = [controllers EXCEPT ![c].stream = "failed"]
    /\ out' = [out EXCEPT ![controllers[c].ws] =
                  sendToClient(controllers[c].ws, @,
                               << ErrorEntry("Stream error", c, ActiveTurn(c), "streamError") >>)]
    /\ UNCHANGED <<readyState, activeSessions, arrived>>
    /\ UNCHANGED fixedVars

\* session.stream() of a closed session ends: the loop is over, silently.
StreamEnd(c) ==
    /\ c \in CtlIds
    /\ controllers[c].stream = "running"
    /\ controllers[c].closed > 0
    /\ controllers' = [controllers EXCEPT ![c].stream = "ended"]
    /\ UNCHANGED <<readyState, activeSessions, out, arrived>>
    /\ UNCHANGED fixedVars

Next ==
    \/ \E c \in CtlIds, message \in ContentEvents \cup ResultEvents : StreamYield(c, message)
    \/ \E c \in CtlIds : StreamThrow(c)
    \/ \E c \in CtlIds : StreamEnd(c)
    \/ \E c \in CtlIds, i \in 1..MaxLog : SendResolve(c, i)
    \/ \E c \in CtlIds, i \in 1..MaxLog : SendReject(c, i)
    \/ \E ws \in Conns, built \in BOOLEAN : CreateSession(ws, built)
    \/ \E ws \in Conns, id \in {"", "sdk-old"}, built \in BOOLEAN : ResumeSession(ws, id, built)
    \/ \E ws \in Conns, prompt \in {"", "Hello"}, built \in BOOLEAN : SendMessage(ws, prompt, built)
    \/ \E ws \in Conns : Stop(ws)
    \/ \E ws \in Conns, prompt \in {"", "Hello"}, built \in BOOLEAN : Legacy(ws, prompt, built)
    \/ \E ws \in Conns : Malformed(ws)
    \/ \E ws \in Conns : wsOnClose(ws)

Spec == Init /\ [][Next]_vars

\* The relay with a client that puts options in its payloads, or does not.
OptionsInit ==
    /\ readyState = [ws \in Conns |-> "OPEN"]
    /\ activeSessions = [ws \in Conns |-> NoCtl]
    /\ controllers = << >>
    /\ out = [ws \in Conns |-> << >>]
    /\ arrived = [ws \in Conns |-> << >>]
    /\ payloadOptions \in {NoOptions, MessageOptions}
    /\ sdkStream = << >>
    /\ transformed = << >>
    /\ NoBrowser

SpecOptions == OptionsInit /\ [][Next]_vars

TypeOK ==
    /\ \A ws \in Conns : activeSessions[ws] \in 0..Len(controllers)
    /\ \A ws \in Conns : Len(out[ws]) <= MaxLog /\ Len(arrived[ws]) <= MaxLog

(***************************************************************************)
(* Reading the wire.                                                       *)
(***************************************************************************)
\* Positions on the wire of ws of the entries of turn t of controller c
\* that came from the code named in srcs.
TurnIdx(ws, c, t, srcs) ==
    {i \in 1..Len(out[ws]) :
        out[ws][i].ctl = c /\ out[ws][i].turn = t /\ out[ws][i].src \in srcs}

IsTerminal(e) == e.msg.type \in {"end", "error"}

IsEnd(e, reason) == e.msg.type = "end" /\ e.msg.stop_reason = reason

FromTurn == {"sendMessage", "stream", "streamError"}

Turns(c) == 1..Len(controllers[c].turns)

\* C1: every turn started by sendMessage has at most one terminal message
\* (end or error) among the messages the controller produced for it, and
\* that terminal is the last of them.
C1_TerminalExclusivity ==
    \A c \in CtlIds : \A t \in Turns(c) :
        LET ws == controllers[c].ws
            idx == TurnIdx(ws, c, t, FromTurn)
            terms == {i \in idx : IsTerminal(out[ws][i])}
        IN /\ Cardinality(terms) <= 1
           /\ \A i \in terms : \A j \in idx : j <= i

\* C2: a stop handled while a turn is active gives exactly one
\* end{user_stopped} for that turn, and no error message of the stopped
\* controller follows it.
C2_StopYieldsOnlyUserStopped ==
    \A ws \in Conns : \A i \in 1..Len(out[ws]) :
        LET e == out[ws][i]
            before == {j \in TurnIdx(ws, e.ctl, e.turn, FromTurn) :
                          j < i /\ IsTerminal(out[ws][j])}
        IN (e.src = "stop" /\ e.turn > 0 /\ before = {}) =>
              /\ Cardinality({j \in TurnIdx(ws, e.ctl, e.turn, FromTurn \cup {"stop"}) :
                                 IsEnd(out[ws][j], "user_stopped")}) = 1
              /\ \A j \in 1..Len(out[ws]) :
                    (j > i /\ out[ws][j].ctl = e.ctl) => out[ws][j].msg.type # "error"

\* C3: when stop races with the result event, the client gets only one of
\* end{end_turn} and end{user_stopped} for the turn, never both.
C3_RaceGivesOneTerminal ==
    \A c \in CtlIds : \A t \in Turns(c) :
        LET ws == controllers[c].ws
            idx == TurnIdx(ws, c, t, FromTurn \cup {"stop"})
        IN ~ /\ \E i \in idx : IsEnd(out[ws][i], "end_turn")
             /\ \E i \in idx : IsEnd(out[ws][i], "user_stopped")

\* C4: a send_message while a turn of the session is pending emits no second
\* start and does not reach the backend: a turn after the first is started
\* only once the turn before it has its terminal message on the wire.
C4_SecondSendRejected ==
    \A c \in CtlIds : \A t \in Turns(c) :
        LET ws == controllers[c].ws
        IN \A i \in TurnIdx(ws, c, t, {"sendMessage"}) :
              (t > 1 /\ out[ws][i].msg.type = "start") =>
                 \E j \in TurnIdx(ws, c, t - 1, FromTurn \cup {"stop"}) :
                    j < i /\ IsTerminal(out[ws][j])

\* The messages on the wire that came out of the stream of controller c.
StreamEntries(c) ==
    SelectSeq(out[controllers[c].ws],
              LAMBDA e : e.ctl = c /\ e.src \in {"stream", "streamError"})

\* C5: once a controller has been closed and unbound by the connection
\* manager (stop, or replacement by create_session / resume_session), no
\* message derived from its backend event stream is delivered any more.
C5_ClosedControllerIsSilent ==
    [][\A c \in CtlIds :
          (controllers[c].closed > 0 /\ activeSessions[controllers[c].ws] # c)
             => StreamEntries(c)' = StreamEntries(c)]_vars

\* C6: after a stream failure the bound controller is a usable retry: a turn
\* started on it afterwards, whose prompt the backend has accepted, has its
\* terminal message or can still get one from the stream.
C6_RetryReachesTerminal ==
    \A c \in CtlIds : \A t \in Turns(c) :
        LET ws == controllers[c].ws
            failure == {i \in 1..Len(out[ws]) :
                           out[ws][i].ctl = c /\ out[ws][i].src = "streamError"}
            retried == \E i \in failure : \E j \in TurnIdx(ws, c, t, {"sendMessage"}) :
                           i < j /\ out[ws][j].msg.type = "start"
        IN (activeSessions[ws] = c /\ retried /\ controllers[c].turns[t].send = "resolved") =>
              \/ \E j \in TurnIdx(ws, c, t, FromTurn) : IsTerminal(out[ws][j])
              \/ controllers[c].stream = "running"

\* C7: every turn has exactly one start message on the wire, ahead of every
\* other message of the turn, present as soon as session.send has been
\* called, and carrying the backend session id when the session has one.
C7_StartOpensTurn ==
    \A c \in CtlIds : \A t \in Turns(c) :
        LET ws == controllers[c].ws
            idx == TurnIdx(ws, c, t, FromTurn \cup {"stop"})
            starts == {i \in idx : out[ws][i].msg.type = "start"}
        IN readyState[ws] = "OPEN" =>
              /\ Cardinality(starts) = 1
              /\ \A i \in starts :
                    /\ \A j \in idx : i <= j
                    /\ out[ws][i].src = "sendMessage"
                    /\ Has(out[ws][i].msg, "session_id") =>
                          out[ws][i].msg.session_id = controllers[c].sessionId
                    /\ (\/ controllers[c].kind = "resume"
                        \/ \E j \in 1..(i - 1) :
                              out[ws][j].ctl = c /\ out[ws][j].src = "stream")
                          => Has(out[ws][i].msg, "session_id")

C7_Witness ==
    \E c \in CtlIds : \E t \in Turns(c) :
        LET ws == controllers[c].ws
        IN /\ readyState[ws] = "OPEN"
           /\ \E i \in TurnIdx(ws, c, t, {"sendMessage"}) :
                 /\ out[ws][i].msg.type = "start"
                 /\ Has(out[ws][i].msg, "session_id")
                 /\ \E j \in TurnIdx(ws, c, t, {"stream"}) : j > i

\* C8: a turn whose events ended with a result event has exactly one
\* end{end_turn}, after every message transformed from the turn's events.
C8_EndTurnAfterContent ==
    \A c \in CtlIds : \A t \in Turns(c) :
        LET ws == controllers[c].ws
            idx == TurnIdx(ws, c, t, {"stream"})
            ends == {i \in idx : IsEnd(out[ws][i], "end_turn")}
        IN (readyState[ws] = "OPEN" /\ controllers[c].turns[t].done) =>
              /\ Cardinality(ends) = 1
              /\ \A i \in ends : \A j \in idx : j <= i

C8_Witness ==
    \E c \in CtlIds : \E t \in Turns(c) :
        LET ws == controllers[c].ws
        IN /\ readyState[ws] = "OPEN"
           /\ controllers[c].turns[t].done
           /\ Cardinality(TurnIdx(ws, c, t, {"stream"})) >= 2

\* The lifecycle marker that follows the messages of a backend event.
MarkerAfter(message) ==
    IF message.type = "result"
    THEN << [type |-> "end", stop_reason |-> "end_turn"] >>
    ELSE << >>

\* The wire entries expected for a sequence of consumed backend events.
RECURSIVE Relayed(_)
Relayed(events) ==
    IF Len(events) = 0 THEN << >>
    ELSE LET a == Head(events)
         IN Tagged(transformSDKMessage(a[3]) \o MarkerAfter(a[3]), a[1], a[2], "stream")
            \o Relayed(Tail(events))

\* C9: the stream-derived messages on the wire of a connection are the
\* transformer outputs of the consumed backend events, each followed by its
\* lifecycle marker, concatenated in arrival order.
C9_WireIsConcatenation ==
    \A ws \in Conns :
        readyState[ws] = "OPEN" =>
            SelectSeq(out[ws], LAMBDA e : e.src = "stream") = Relayed(arrived[ws])

C9_Witness ==
    \E ws \in Conns :
        /\ readyState[ws] = "OPEN"
        /\ Len(arrived[ws]) >= 2
        /\ Len(SelectSeq(out[ws], LAMBDA e : e.src = "stream")) >= 2
        /\ out[ws][Len(out[ws])].src = "stream"

\* C10: the disconnect handler closes the bound controller and removes the
\* registry entry, and a disconnected connection never has an entry again.
C10_DisconnectClearsRegistry ==
    [][\A ws \in Conns :
          readyState'[ws] = "CLOSED" =>
             /\ activeSessions'[ws] = NoCtl
             /\ (readyState[ws] = "OPEN" /\ activeSessions[ws] # NoCtl) =>
                   controllers'[activeSessions[ws]].closed
                      = controllers[activeSessions[ws]].closed + 1]_vars

C10_Witness ==
    \E c \in CtlIds :
        /\ readyState[controllers[c].ws] = "CLOSED"
        /\ activeSessions[controllers[c].ws] = NoCtl
        /\ controllers[c].closed = 1
        /\ ActiveTurn(c) # 0

(***************************************************************************)
(* The connection manager: one controller per connection.                  *)
(***************************************************************************)
\* The controllers created for a connection that nobody has closed.
Unclosed(ws) ==
    {c \in CtlIds : controllers[c].ws = ws /\ controllers[c].closed = 0}

\* C11: create_session, and resume_session with an id, close the bound
\* controller before they bind the new one: at every moment a connection
\* has at most one controller that was created for it and not closed, that
\* controller is the bound one, and the binding names a controller of the
\* connection.
C11_OneOpenController ==
    \A ws \in Conns :
        /\ Cardinality(Unclosed(ws)) <= 1
        /\ Unclosed(ws) \subseteq {activeSessions[ws]}
        /\ activeSessions[ws] # NoCtl =>
              /\ activeSessions[ws] \in CtlIds
              /\ controllers[activeSessions[ws]].ws = ws

\* A session was replaced: the first controller is closed exactly once, the
\* second one is open and bound.
C11_Witness ==
    \E ws \in Conns :
        /\ Len(controllers) >= 2
        /\ controllers[1].ws = ws /\ controllers[1].closed = 1
        /\ controllers[2].ws = ws /\ controllers[2].closed = 0
        /\ activeSessions[ws] = 2
        /\ \E k \in 1..Len(out[ws]) :
              out[ws][k].ctl = 2 /\ out[ws][k].msg.type \in {"session_created", "session_resumed"}

\* The turn sendMessage opens: the prompt is with session.send.
Forwarded == [send |-> "pending", events |-> 0, done |-> FALSE]

\* C12: send_message with a prompt on an idle connection creates exactly one
\* controller, binds it and forwards the prompt to it; on an active
\* connection it creates none and forwards the prompt to the bound one.
C12_SendMessageAutoCreates ==
    [][\A ws \in Conns :
          SendMessage(ws, "Hello", TRUE) =>
              IF activeSessions[ws] = NoCtl
              THEN LET c == Len(controllers) + 1
                   IN /\ Len(controllers') = c
                      /\ SubSeq(controllers', 1, Len(controllers)) = controllers
                      /\ controllers'[c].ws = ws
                      /\ controllers'[c].closed = 0
                      /\ controllers'[c].turns = << Forwarded >>
                      /\ activeSessions'[ws] = c
              ELSE LET c == activeSessions[ws]
                   IN /\ Len(controllers') = Len(controllers)
                      /\ activeSessions' = activeSessions
                      /\ controllers'[c].turns = Append(controllers[c].turns, Forwarded)
                      /\ \A d \in CtlIds \ {c} : controllers'[d] = controllers[d]]_vars

\* Both cases happened on one connection: the first prompt built the only
\* controller there is, the second prompt went to the same controller.
C12_Witness ==
    \E ws \in Conns :
        /\ Len(controllers) = 1
        /\ activeSessions[ws] = 1
        /\ Len(controllers[1].turns) = 2
        /\ Len(out[ws]) >= 2
        /\ out[ws][1].msg.type = "start" /\ out[ws][1].ctl = 1 /\ out[ws][1].turn = 1
        /\ \E k \in 2..Len(out[ws]) :
              out[ws][k].msg.type = "start" /\ out[ws][k].ctl = 1 /\ out[ws][k].turn = 2

\* The positions on the wire of the user_stopped that stopped controller c.
StoppedAt(ws, c) ==
    {k \in 1..Len(out[ws]) :
        out[ws][k].ctl = c /\ out[ws][k].src = "stop" /\ IsEnd(out[ws][k], "user_stopped")}

\* C13 (the step): stop on an active connection closes the bound controller
\* and removes the binding, so the connection is idle again.
C13_StopStep ==
    \A ws \in Conns :
        (Stop(ws) /\ activeSessions[ws] # NoCtl) =>
            LET c == activeSessions[ws]
            IN /\ controllers'[c].closed = controllers[c].closed + 1
               /\ activeSessions'[ws] = NoCtl
               /\ Len(controllers') = Len(controllers)

\* C13 (what follows): a stopped controller is closed, is never bound again
\* and opens no turn after its stop; a later send_message is served by a
\* controller created after the stop.
C13_StoppedNeverServes ==
    \A ws \in Conns : \A c \in CtlIds : \A k \in StoppedAt(ws, c) :
        /\ controllers[c].closed > 0
        /\ activeSessions[ws] # c
        /\ \A j \in (k + 1)..Len(out[ws]) :
              out[ws][j].msg.type = "start" =>
                  /\ out[ws][j].ctl > c
                  /\ \A i \in 1..k : out[ws][i].ctl # out[ws][j].ctl

\* C13: stop on an active connection closes the bound controller, removes
\* the binding and returns the connection to idle, so that the next
\* send_message is served by a freshly created controller and never by the
\* stopped one.
C13_StopReturnsToIdle == [](C13_StoppedNeverServes) /\ [][C13_StopStep]_vars

\* A session was stopped and the next prompt went to a new controller.
C13_Witness ==
    \E ws \in Conns :
        /\ Len(controllers) = 2
        /\ activeSessions[ws] = 2
        /\ controllers[1].closed = 1
        /\ Len(out[ws]) = 3
        /\ out[ws][1].msg.type = "start" /\ out[ws][1].ctl = 1
        /\ 2 \in StoppedAt(ws, 1)
        /\ out[ws][3].msg.type = "start" /\ out[ws][3].ctl = 2

(***************************************************************************)
(* Commands that must leave the connection as it was.                      *)
(***************************************************************************)
\* What a step writes to the wire of a connection.
Sent(ws) == SubSeq(out'[ws], Len(out[ws]) + 1, Len(out'[ws]))

\* A step that leaves the registry and every controller as they were.
Untouched == activeSessions' = activeSessions /\ controllers' = controllers

IsError(e) == e.msg.type = "error"

\* C14: stop on a connection with nothing bound raises nothing, emits no
\* error, leaves the connection idle and the registry unchanged, and writes
\* nothing or a single end{user_stopped}.
C14_StopWhenIdle ==
    [][\A ws \in Conns :
          (Stop(ws) /\ activeSessions[ws] = NoCtl) =>
              /\ Untouched
              /\ activeSessions'[ws] = NoCtl
              /\ readyState' = readyState
              /\ Len(Sent(ws)) <= 1
              /\ \A k \in 1..Len(Sent(ws)) :
                    ~IsError(Sent(ws)[k]) /\ IsEnd(Sent(ws)[k], "user_stopped")]_vars

\* A stop was handled with nothing bound, before any session existed.
C14_Witness ==
    \E ws \in Conns :
        /\ controllers = << >>
        /\ activeSessions[ws] = NoCtl
        /\ Len(out[ws]) >= 1
        /\ out[ws][1].src = "stop" /\ out[ws][1].ctl = NoCtl
        /\ IsEnd(out[ws][1], "user_stopped")

\* The error texts of the manager that name the field sdkSessionId.
MentionsSdkSessionId(text) == text \in {"Missing sdkSessionId for resume"}

\* C15: resume_session without sdkSessionId yields exactly one error whose
\* text mentions "sdkSessionId"; the registry is not mutated, the bound
\* controller is neither closed nor replaced, no session_resumed is sent.
C15_ResumeWithoutId ==
    [][\A ws \in Conns : \A built \in BOOLEAN :
          ResumeSession(ws, "", built) =>
              /\ Untouched
              /\ Len(Sent(ws)) = 1
              /\ IsError(Sent(ws)[1])
              /\ MentionsSdkSessionId(Sent(ws)[1].msg.error)]_vars

\* The complaint about the missing id arrived while a session was bound and
\* open, and the session is still bound and open.
C15_Witness ==
    \E ws \in Conns : \E k \in 1..Len(out[ws]) :
        /\ IsError(out[ws][k]) /\ MentionsSdkSessionId(out[ws][k].msg.error)
        /\ k > 1 /\ out[ws][k - 1].ctl = 1
        /\ activeSessions[ws] = 1
        /\ controllers[1].closed = 0
        /\ Len(controllers) = 1

\* C16: send_message without a prompt yields exactly one error and no state
\* change: nothing is auto-created on an idle connection, the bound
\* controller is kept and receives nothing, no start is emitted.
C16_SendWithoutPrompt ==
    [][\A ws \in Conns : \A built \in BOOLEAN :
          SendMessage(ws, "", built) =>
              /\ Untouched
              /\ Len(Sent(ws)) = 1
              /\ IsError(Sent(ws)[1])
              /\ Sent(ws)[1].msg.error = "Missing required field: prompt"]_vars

\* The complaint about the missing prompt arrived on an idle connection
\* and on an active one; no controller was made for the first, the bound
\* one got no second turn from the other.
C16_Witness ==
    \E ws \in Conns :
        /\ Len(out[ws]) = 3
        /\ IsError(out[ws][1]) /\ out[ws][1].msg.error = "Missing required field: prompt"
        /\ out[ws][2].msg.type = "start" /\ out[ws][2].ctl = 1
        /\ IsError(out[ws][3]) /\ out[ws][3].msg.error = "Missing required field: prompt"
        /\ Len(controllers) = 1
        /\ Len(controllers[1].turns) = 1
        /\ activeSessions[ws] = 1

\* C17: an unparseable payload produces exactly one error on the connection
\* it came from and no state transition: binding and bound controller are
\* unchanged and the connection stays open for later commands.
C17_MalformedPayload ==
    [][\A ws \in Conns :
          Malformed(ws) =>
              /\ Untouched
              /\ readyState' = readyState
              /\ readyState'[ws] = "OPEN"
              /\ Len(Sent(ws)) = 1
              /\ IsError(Sent(ws)[1])
              /\ \A other \in Conns \ {ws} : out'[other] = out[other]]_vars

\* A payload that did not parse arrived in the middle of a session, and the
\* next command was served by the same controller.
C17_Witness ==
    \E ws \in Conns :
        /\ Len(out[ws]) = 3
        /\ out[ws][1].msg.type = "start" /\ out[ws][1].ctl = 1
        /\ IsError(out[ws][2]) /\ out[ws][2].msg.error = "Unexpected token"
        /\ out[ws][3].msg.type = "start" /\ out[ws][3].ctl = 1 /\ out[ws][3].turn = 2
        /\ activeSessions[ws] = 1
        /\ controllers[1].closed = 0

\* C18: sendMessage never throws or rejects: when session.send fails, the
\* failure is reported as one error carrying the failure's message, the
\* handler that awaited sendMessage reports nothing more, and the controller
\* stays bound, unclosed and with its stream as it was.
C18_SendFailureIsReported ==
    [][\A c \in CtlIds : \A i \in 1..MaxLog :
          SendReject(c, i) =>
              LET ws == controllers[c].ws
              IN /\ activeSessions' = activeSessions
                 /\ Len(controllers') = Len(controllers)
                 /\ controllers'[c].closed = controllers[c].closed
                 /\ controllers'[c].stream = controllers[c].stream
                 /\ Len(controllers'[c].turns) = Len(controllers[c].turns)
                 /\ \A d \in CtlIds \ {c} : controllers'[d] = controllers[d]
                 /\ IF readyState[ws] = "OPEN"
                    THEN /\ Len(Sent(ws)) = 1
                         /\ IsError(Sent(ws)[1])
                         /\ Sent(ws)[1].msg.error = SendFailure.message
                    ELSE Sent(ws) = << >>]_vars

\* A send failed, the error reached the client, and the same controller,
\* still bound and open, took the next prompt.
C18_Witness ==
    \E ws \in Conns :
        /\ Len(out[ws]) = 3
        /\ out[ws][1].msg.type = "start" /\ out[ws][1].ctl = 1 /\ out[ws][1].turn = 1
        /\ IsError(out[ws][2]) /\ out[ws][2].src = "sendMessage"
        /\ out[ws][2].ctl = 1 /\ out[ws][2].turn = 1
        /\ out[ws][2].msg.error = "Send failed"
        /\ out[ws][3].msg.type = "start" /\ out[ws][3].ctl = 1 /\ out[ws][3].turn = 2
        /\ activeSessions[ws] = 1
        /\ controllers[1].closed = 0
        /\ controllers[1].turns[1].send = "rejected"

(***************************************************************************)
(* The client's record of the backend session id (useWebSocket).           *)
(***************************************************************************)
\* ws.onmessage: what one message of the wire does to sdkSessionId.
onmessageSdkSessionId(sdkSessionId, message) ==
    IF message.type \in {"session_created", "session_resumed"}
    THEN IF Has(message, "sdkSessionId")
         THEN JsString(message.sdkSessionId) ELSE JsUndefined
    ELSE IF message.type = "start" /\ Has(message, "session_id") /\ message.session_id # ""
    THEN JsString(message.session_id)
    ELSE sdkSessionId

RECURSIVE clientSdkSessionId(_)
\* sdkSessionId of the hook after it has handled the messages of a wire;
\* it starts as null.
clientSdkSessionId(log) ==
    IF log = << >> THEN JsNull
    ELSE onmessageSdkSessionId(clientSdkSessionId(SubSeq(log, 1, Len(log) - 1)),
                               log[Len(log)].msg)

\* The first turn of controller c ended with a successful result that
\* reached the client.
FirstTurnSucceeded(c) ==
    LET ws == controllers[c].ws
    IN /\ \E k \in 1..Len(out[ws]) :
             /\ out[ws][k].ctl = c /\ out[ws][k].turn = 1 /\ out[ws][k].src = "stream"
             /\ IsEnd(out[ws][k], "end_turn")
       /\ \A k \in 1..Len(out[ws]) :
             (out[ws][k].ctl = c /\ out[ws][k].turn = 1) => ~IsError(out[ws][k])

\* C19: once the first turn of a freshly created session has completed
\* successfully, the backend session id has been delivered to the client:
\* the client's sdkSessionId is the id of the bound session.
C19_IdReachesClient ==
    \A c \in CtlIds :
        (/\ controllers[c].kind = "create"
         /\ activeSessions[controllers[c].ws] = c
         /\ controllers[c].closed = 0
         /\ readyState[controllers[c].ws] = "OPEN"
         /\ FirstTurnSucceeded(c))
        => /\ controllers[c].sessionId # ""
           /\ clientSdkSessionId(out[controllers[c].ws]) = JsString(controllers[c].sessionId)

(***************************************************************************)
(* transformSDKMessage on its own: the events it can be called with and    *)
(* the calls.                                                              *)
(***************************************************************************)
relayVars == <<readyState, activeSessions, controllers, out, arrived, payloadOptions>>

SeqsUpTo(S, n) == UNION {[1..k -> S] : k \in 0..n}

JsObject(json) == [kind |-> "object", v |-> json]

\* Content blocks of an assistant message.
AssistantBlockShapes ==
    { [type |-> "text", text |-> "X"],
      [type |-> "text", text |-> ""],
      [type |-> "text"],
      [type |-> "tool_use", id |-> "t1", name |-> "Read",
       input |-> {<<"file_path", "/a.txt">>}],
      [type |-> "tool_use", id |-> "t2", name |-> "Bash"],
      [type |-> "thinking", thinking |-> "T"],
      [type |-> "thinking", thinking |-> ""],
      [type |-> "image"] }

\* The sub-blocks of the content of a tool_result.
SubBlocks ==
    { << >>,
      << [type |-> "text", text |-> "a"] >>,
      << [type |-> "text", text |-> "a"], [type |-> "image"], [type |-> "text", text |-> "b"] >>,
      << [type |-> "image"], [type |-> "text"] >> }

\* What block.content of a tool_result can be.
ContentShapes ==
    {JsString("hello"), JsString(""), JsNumber(7), JsNull, JsObject("\"a\":1")}
        \cup {JsArray(a) : a \in SubBlocks}

\* Content blocks of a user message.
UserBlockShapes ==
    {[type |-> "tool_result", tool_use_id |-> "t1", content |-> c] : c \in ContentShapes}
        \cup { [type |-> "tool_result", tool_use_id |-> "t1"],
               [type |-> "tool_result", tool_use_id |-> "t1",
                content |-> JsString("boom"), is_error |-> TRUE],
               [type |-> "tool_result", content |-> JsString("hello"), is_error |-> FALSE],
               [type |-> "text", text |-> "typed by the user"] }

ErrorLists == SeqsUpTo({"e1", "e2"}, MaxBlocks)

ResultShapes ==
    {ResultSuccess, [type |-> "result", subtype |-> "success"]}
        \cup {[type |-> "result", subtype |-> "error_during_execution", is_error |-> b]
                 : b \in BOOLEAN}
        \cup {[type |-> "result", subtype |-> "success", errors |-> e] : e \in ErrorLists}
        \cup {[type |-> "result", subtype |-> "error_during_execution",
               is_error |-> b, errors |-> e] : b \in BOOLEAN, e \in ErrorLists}

\* Every event the transformer is called with.
SdkEvents ==
    {[type |-> "assistant", message |-> [content |-> c]]
        : c \in SeqsUpTo(AssistantBlockShapes, MaxBlocks)}
    \cup {[type |-> "user", message |-> [content |-> c]]
        : c \in SeqsUpTo(UserBlockShapes, MaxBlocks)}
    \cup ResultShapes
    \cup { [type |-> "assistant"], [type |-> "user", message |-> [role |-> "user"]],
           SystemInit,
           [type |-> "stream_event"],
           [type |-> "stream_event", content |-> JsString("raw")],
           [type |-> "stream_event", content |-> JsNumber(7)] }

\* The events that are also looked at as parts of a stream.
StreamEvents ==
    {AssistantText, AssistantToolUse, UserToolResult, SystemInit, ResultSuccess, ResultError}

XfInit == Init

\* One call of transformSDKMessage.  After the first call the next one is
\* with the same event again or with an event of a stream.
Transform(message) ==
    /\ Len(sdkStream) < MaxCalls
    /\ \/ sdkStream = << >>
       \/ sdkStream # << >> /\ message = sdkStream[Len(sdkStream)]
       \/ message \in StreamEvents /\ \A i \in 1..Len(sdkStream) : sdkStream[i] \in StreamEvents
    /\ sdkStream' = Append(sdkStream, message)
    /\ transformed' = Append(transformed, transformSDKMessage(message))
    /\ UNCHANGED relayVars
    /\ UNCHANGED <<files, hook, happened>>

XfNext == \E message \in SdkEvents : Transform(message)

SpecXf == XfInit /\ [][XfNext]_vars

\* Everything the calls so far have returned, in order.
RECURSIVE Flat(_)
Flat(arrays) ==
    IF Len(arrays) = 0 THEN << >> ELSE Head(arrays) \o Flat(Tail(arrays))

\* The messages of a given type among a sequence of messages.
OfType(msgs, type) == SelectSeq(msgs, LAMBDA m : m.type = type)

Calls == 1..Len(sdkStream)

C26_ToolRoundTrip ==
    /\ sdkStream = <<AssistantToolUse, UserToolResult>> =>
          Flat(transformed) =
             << [type |-> "tool_use", id |-> "t1", name |-> "Read",
                 input |-> {<<"file_path", "/a.txt">>}],
                [type |-> "tool_result", tool_use_id |-> "t1", content |-> "hello",
                 is_error |-> FALSE] >>
    /\ \A i \in Calls :
          (/\ sdkStream[i].type = "user"
           /\ Len(ContentArray(sdkStream[i])) = 1
           /\ ContentArray(sdkStream[i])[1].type = "tool_result")
          => LET block == ContentArray(sdkStream[i])[1]
             IN /\ Len(transformed[i]) = 1
                /\ transformed[i][1].type = "tool_result"
                /\ Has(transformed[i][1], "is_error")
                /\ transformed[i][1].is_error =
                      (IF Has(block, "is_error") THEN block.is_error ELSE FALSE)
                /\ Has(block, "tool_use_id") =>
                      transformed[i][1].tool_use_id = block.tool_use_id

C26_Witness ==
    /\ sdkStream = <<AssistantToolUse, UserToolResult>>
    /\ Len(transformed) = 2
    /\ ~Has(ContentArray(sdkStream[2])[1], "is_error")
    /\ Len(Flat(transformed)) = 2

\* The event with only its k-th content block.
OnlyBlock(message, k) ==
    [message EXCEPT !.message = [@ EXCEPT !.content = << ContentArray(message)[k] >>]]

\* What the blocks of an event yield, block by block, in block order.
RECURSIVE BlockByBlock(_, _)
BlockByBlock(message, k) ==
    IF k > Len(ContentArray(message)) THEN << >>
    ELSE transformSDKMessage(OnlyBlock(message, k)) \o BlockByBlock(message, k + 1)

ContentByShape(block) ==
    IF Has(block, "content") /\ block.content.kind = "string" THEN block.content.v
    ELSE IF Has(block, "content") /\ block.content.kind = "array"
    THEN JoinNl(TextsOf(block.content.v))
    ELSE Stringify(IF Has(block, "content") THEN block.content ELSE JsUndefined).s

\* C29: for a user event only tool_result blocks are surfaced, one message
\* per block in order, and the content of each is a string derived by
\* shape: a string verbatim, a list of sub-blocks as the texts of its text
\* sub-blocks joined by newline, anything else serialized to a string.
C29_ToolResultContentIsString ==
    \A i \in Calls :
        sdkStream[i].type = "user" =>
            LET results == SelectSeq(ContentArray(sdkStream[i]),
                                     LAMBDA b : b.type = "tool_result")
            IN /\ Len(transformed[i]) = Len(results)
               /\ \A k \in 1..Len(results) :
                     /\ transformed[i][k].type = "tool_result"
                     /\ Has(transformed[i][k], "content")
                     /\ transformed[i][k].content = ContentByShape(results[k])

\* The blocks of an assistant event that the claim says are surfaced.
Surfaced(block) ==
    \/ block.type = "text" /\ Has(block, "text") /\ block.text # ""
    \/ block.type = "tool_use"
    \/ block.type = "thinking" /\ Has(block, "thinking") /\ block.thinking # ""

\* The message the claim gives for a surfaced block.
MessageFor(block) ==
    CASE block.type = "text" -> [type |-> "text", content |-> block.text]
      [] block.type = "thinking" -> [type |-> "thinking", content |-> block.thinking]
      [] block.type = "tool_use" ->
           [f \in {"type", "input"} \cup (DOMAIN block \cap {"id", "name"}) |->
               IF f = "type" THEN "tool_use"
               ELSE IF f = "input"
               THEN (IF Has(block, "input") THEN block.input ELSE {})
               ELSE block[f]]

\* C30: for an assistant event the output holds, in block order, one text
\* message per text block with non-empty text, one tool_use message per
\* tool_use block (input defaulting to an empty mapping) and one thinking
\* message per thinking block with non-empty content; empty text or
\* thinking blocks and blocks of any other type produce nothing.
C30_AssistantBlocks ==
    \A i \in Calls :
        sdkStream[i].type = "assistant" =>
            LET kept == SelectSeq(ContentArray(sdkStream[i]), Surfaced)
            IN /\ Len(transformed[i]) = Len(kept)
               /\ \A k \in 1..Len(kept) : transformed[i][k] = MessageFor(kept[k])

\* An assistant event with an empty text block ahead of a tool_use block
\* without input was transformed: one message, the tool_use, input empty.
C30_Witness ==
    \E i \in Calls :
        /\ sdkStream[i].type = "assistant"
        /\ Len(ContentArray(sdkStream[i])) = 2
        /\ ContentArray(sdkStream[i])[1] = [type |-> "text", text |-> ""]
        /\ ContentArray(sdkStream[i])[2].type = "tool_use"
        /\ ~Has(ContentArray(sdkStream[i])[2], "input")
        /\ Len(transformed[i]) = 1
        /\ transformed[i][1].input = {}


(***************************************************************************)
(* The legacy payload.                                                     *)
(***************************************************************************)
\* C24: a payload {prompt, options?} without a type is handled exactly like
\* {type: "send_message", prompt, options?}: from the same state both make
\* the same registry change, the same controller (with the same options)
\* and the same outbound messages, the error reply for a missing prompt
\* included.
C24_LegacyIsSendMessage ==
    [][\A ws \in Conns : \A prompt \in {"", "Hello"} : \A built \in BOOLEAN :
          SendMessage(ws, prompt, built) <=> Legacy(ws, prompt, built)]_vars


(***************************************************************************)
(* Two connections on one server.                                          *)
(***************************************************************************)
IsoConns == {"wsA", "wsB"}

IsoInit ==
    /\ readyState = [ws \in IsoConns |-> "OPEN"]
    /\ activeSessions = [ws \in IsoConns |-> NoCtl]
    /\ controllers = << >>
    /\ out = [ws \in IsoConns |-> << >>]
    /\ arrived = [ws \in IsoConns |-> << >>]
    /\ payloadOptions = NoOptions
    /\ sdkStream = << >>
    /\ transformed = << >>
    /\ NoBrowser

\* The messages written to all wires together.
RECURSIVE Written(_)
Written(conns) ==
    IF conns = {} THEN 0
    ELSE LET ws == CHOOSE w \in conns : TRUE
         IN Len(out[ws]) + Written(conns \ {ws})

WithinLog == Written(IsoConns) <= MaxIsoLog

IsoNext ==
    \/ \E c \in CtlIds, message \in ContentEvents \cup ResultEvents :
          StreamYield(c, message) /\ WithinLog'
    \/ \E c \in CtlIds : StreamThrow(c) /\ WithinLog'
    \/ \E c \in CtlIds : StreamEnd(c)
    \/ \E c \in CtlIds, i \in 1..MaxLog : SendResolve(c, i)
    \/ \E c \in CtlIds, i \in 1..MaxLog : SendReject(c, i) /\ WithinLog'
    \/ \E ws \in IsoConns, built \in BOOLEAN : CreateSession(ws, built) /\ WithinLog'
    \/ \E ws \in IsoConns, id \in {"", "sdk-old"}, built \in BOOLEAN :
          ResumeSession(ws, id, built) /\ WithinLog'
    \/ \E ws \in IsoConns, prompt \in {"", "Hello"}, built \in BOOLEAN :
          SendMessage(ws, prompt, built) /\ WithinLog'
    \/ \E ws \in IsoConns : Stop(ws) /\ WithinLog'
    \/ \E ws \in IsoConns, prompt \in {"", "Hello"}, built \in BOOLEAN :
          Legacy(ws, prompt, built) /\ WithinLog'
    \/ \E ws \in IsoConns : Malformed(ws) /\ WithinLog'
    \/ \E ws \in IsoConns : wsOnClose(ws)

SpecIso == IsoInit /\ [][IsoNext]_vars


\* A step taken by the handlers of connection ws: a command, a payload
\* that does not parse, or the disconnect.
HandlerStep(ws) ==
    \/ \E built \in BOOLEAN : CreateSession(ws, built)
    \/ \E id \in {"", "sdk-old"}, built \in BOOLEAN : ResumeSession(ws, id, built)
    \/ \E prompt \in {"", "Hello"}, built \in BOOLEAN : SendMessage(ws, prompt, built)
    \/ Stop(ws)
    \/ \E prompt \in {"", "Hello"}, built \in BOOLEAN : Legacy(ws, prompt, built)
    \/ Malformed(ws)
    \/ wsOnClose(ws)

\* A step that leaves the connection as it was: its binding, its socket,
\* its wire and every controller created for it.
LeftAlone(ws) ==
    /\ activeSessions'[ws] = activeSessions[ws]
    /\ readyState'[ws] = readyState[ws]
    /\ out'[ws] = out[ws]
    /\ \A c \in CtlIds : controllers[c].ws = ws => controllers'[c] = controllers[c]
    /\ \A c \in 1..Len(controllers') : c \notin CtlIds => controllers'[c].ws # ws

\* C21: connection isolation.  Handling a command, a malformed payload or
\* the disconnect of connection A changes only A's registry entry and
\* writes only to A; the binding, the controllers and the wire of every
\* other connection are unchanged, under every interleaving.
C21_ConnectionIsolation ==
    [][\A a \in IsoConns : HandlerStep(a) => \A b \in IsoConns \ {a} : LeftAlone(b)]_vars

\* Both connections had a session with an open turn when one of them
\* disconnected: its controller is closed, the other's is bound and open.
C21_Witness ==
    \E a \in IsoConns : \E b \in IsoConns \ {a} :
        /\ readyState[a] = "CLOSED" /\ readyState[b] = "OPEN"
        /\ activeSessions[a] = NoCtl
        /\ activeSessions[b] # NoCtl
        /\ controllers[activeSessions[b]].closed = 0
        /\ Len(out[a]) = 1 /\ Len(out[b]) = 1
        /\ \E c \in CtlIds : controllers[c].ws = a /\ controllers[c].closed = 1


(***************************************************************************)
(* The stdio transport (server/stdio.ts).  Its one wire is stdout; the     *)
(* registry entry of "stdio" is currentSession; readyState is OPEN while   *)
(* the process runs and CLOSED once process.exit(0) has run, after which   *)
(* nothing is written.                                                     *)
(***************************************************************************)
Stdio == "stdio"

StdioInit ==
    /\ readyState = [ws \in {Stdio} |-> "OPEN"]
    /\ activeSessions = [ws \in {Stdio} |-> NoCtl]
    /\ controllers = << >>
    /\ out = [ws \in {Stdio} |-> << >>]
    /\ arrived = [ws \in {Stdio} |-> << >>]
    /\ payloadOptions = NoOptions
    /\ sdkStream = << >>
    /\ transformed = << >>
    /\ NoBrowser

\* A line handler that builds a session for every line.
needsSessionAlways(current) == TRUE

\* if (!currentSession)
needsSession(current) == current = NoCtl

\* rl.on('line') with a line that parses.  prompt = "": no prompt in it.
\* built = FALSE: createSession throws.
StdioLine(prompt, built) ==
    /\ CanHandle(Stdio, 1)
    /\ IF prompt = ""
       THEN /\ built
            /\ out' = [out EXCEPT ![Stdio] =
                          sendToClient(Stdio, @,
                              << ErrorEntry("Missing required field: prompt", 0, 0, "server") >>)]
            /\ UNCHANGED <<controllers, activeSessions>>
       ELSE IF needsSession(activeSessions[Stdio])
       THEN IF built
            THEN LET c == Len(controllers) + 1
                     made == Append(controllers,
                                    NewController(Stdio, "create", "", payloadOptions))
                 IN /\ controllers' = sendMessage(made, c)
                    /\ activeSessions' = bind(activeSessions, Stdio, c)
                    /\ out' = [out EXCEPT ![Stdio] =
                                  sendToClient(Stdio, @, sendMessageEmits(made, c))]
            ELSE /\ out' = [out EXCEPT ![Stdio] =
                               sendToClient(Stdio, @,
                                   << ErrorEntry("create failed", 0, 0, "server") >>)]
                 /\ UNCHANGED <<controllers, activeSessions>>
       ELSE LET c == activeSessions[Stdio]
            IN /\ built
               /\ controllers' = sendMessage(controllers, c)
               /\ out' = [out EXCEPT ![Stdio] =
                             sendToClient(Stdio, @, sendMessageEmits(controllers, c))]
               /\ UNCHANGED activeSessions
    /\ UNCHANGED <<readyState, arrived>>
    /\ UNCHANGED fixedVars

\* rl.on('line') with a line that JSON.parse rejects: the catch reports it.
StdioMalformed ==
    /\ CanHandle(Stdio, 1)
    /\ out' = [out EXCEPT ![Stdio] =
                  sendToClient(Stdio, @, << ErrorEntry("Unexpected token", 0, 0, "server") >>)]
    /\ UNCHANGED <<readyState, activeSessions, controllers, arrived>>
    /\ UNCHANGED fixedVars

\* rl.on('line') with a blank line: if (!line.trim()) return
StdioBlank ==
    /\ readyState[Stdio] = "OPEN"
    /\ UNCHANGED vars

\* rl.on('close'), at the end of the input or after SIGINT / SIGTERM:
\* currentSession.close() if there is one, then process.exit(0).
StdioClose ==
    /\ readyState[Stdio] = "OPEN"
    /\ readyState' = [readyState EXCEPT ![Stdio] = "CLOSED"]
    /\ controllers' = ClosedExisting(Stdio)
    /\ UNCHANGED <<activeSessions, out, arrived>>
    /\ UNCHANGED fixedVars

StdioNext ==
    \/ \E c \in CtlIds, message \in ContentEvents \cup ResultEvents : StreamYield(c, message)
    \/ \E c \in CtlIds : StreamThrow(c)
    \/ \E c \in CtlIds : StreamEnd(c)
    \/ \E c \in CtlIds, i \in 1..MaxLog : SendResolve(c, i)
    \/ \E c \in CtlIds, i \in 1..MaxLog : SendReject(c, i)
    \/ \E prompt \in {"", "Hello"}, built \in BOOLEAN : StdioLine(prompt, built)
    \/ StdioMalformed
    \/ StdioBlank
    \/ StdioClose

SpecStdio == StdioInit /\ [][StdioNext]_vars


\* The run read exactly one line, {"prompt": "Hello"}: one session, one
\* turn, and nothing on stdout that a line handler wrote for another line.
OneHelloLine ==
    /\ Len(controllers) = 1
    /\ Len(controllers[1].turns) = 1
    /\ \A k \in 1..Len(out[Stdio]) : out[Stdio][k].src # "server"

\* C22: on the stdio transport the line {"prompt": "Hello"} produces an
\* output that starts with start, holds zero or more content messages and
\* ends with exactly one end or error, also when the input closes right
\* after the line: once the process has exited, the terminal message is on
\* stdout.
C22_StdioTurnIsComplete ==
    (readyState[Stdio] = "CLOSED" /\ OneHelloLine) =>
        LET log == out[Stdio]
        IN /\ Len(log) >= 2
           /\ log[1].msg.type = "start"
           /\ IsTerminal(log[Len(log)])
           /\ Cardinality({k \in 1..Len(log) : IsTerminal(log[k])}) = 1

\* C23: on the stdio transport at most one session is created for the whole
\* run.  The first line with a prompt creates it, every later line is sent
\* to the same session, also while an earlier send is still awaited, and
\* the session is closed only when the input closes.
C23_OneStdioSession ==
    /\ Len(controllers) <= 1
    /\ activeSessions[Stdio] \in {NoCtl, 1}
    /\ \A k \in 1..Len(out[Stdio]) :
          out[Stdio][k].msg.type = "start" =>
              /\ out[Stdio][k].ctl = 1
              /\ activeSessions[Stdio] = 1
    /\ \A c \in CtlIds :
          /\ controllers[c].closed > 0 => readyState[Stdio] = "CLOSED"
          /\ Len(controllers[c].turns) =
                Cardinality({k \in 1..Len(out[Stdio]) : out[Stdio][k].msg.type = "start"})

\* Two lines were read and the second was handled while the send of the
\* first was still awaited: both prompts are with the one session.
C23_Witness ==
    /\ Len(controllers) = 1
    /\ Len(controllers[1].turns) = 2
    /\ controllers[1].turns[1].send = "pending"
    /\ controllers[1].turns[2].send = "pending"
    /\ controllers[1].closed = 0
    /\ readyState[Stdio] = "OPEN"

(***************************************************************************)
(* The session store of the server: one JSON file per session in           *)
(* SESSIONS_DIR, behind GET / PUT / DELETE /api/sessions/:id.  An id is    *)
(* the sequence of its characters.                                         *)
(***************************************************************************)
MaxFiles == 2    \* files in SESSIONS_DIR

\* The characters of [a-zA-Z0-9_-] that the ids below are written with.
WordChars == {"s", "0", "1", "2", "3", "4", "5", "6", "7", "8", "9", "_", "-"}

\* Ids a request can carry; << >> is the empty string.
StoreIds ==
    { <<"s", "1">>, <<"s", "2">>, <<"s", "_", "1">>, <<"s", "/", "1">>, <<"s", ".", "1">> }

\* id.replace(/[^a-zA-Z0-9_-]/g, '_')
sanitizedId(id) == [i \in 1..Len(id) |-> IF id[i] \in WordChars THEN id[i] ELSE "_"]

\* path.join(SESSIONS_DIR, `${sanitizedId}.json`)
getSessionPath(id) == sanitizedId(id) \o <<".json">>

\* The own properties of a session object, in the order they are written.
SessionKeys == <<"id", "name", "createdAt", "updatedAt", "messages", "sdkSessionId">>

\* A serializer that writes the properties of the server's Session type only.
stringifyDeclared(value) ==
    LET keys == SelectSeq(SessionKeys, LAMBDA k : k \in DOMAIN value /\ k # "sdkSessionId")
    IN  [i \in 1..Len(keys) |-> <<keys[i], value[keys[i]]>>]

\* JSON.stringify(session, null, 2): the text is the list of "key": value
\* members of every property the object has; a property that is undefined
\* is no member.
stringify(value) ==
    LET keys == SelectSeq(SessionKeys, LAMBDA k : k \in DOMAIN value)
    IN  [i \in 1..Len(keys) |-> <<keys[i], value[keys[i]]>>]

\* JSON.parse(content): the object with one property per member.
parse(text) ==
    [k \in {text[i][1] : i \in DOMAIN text} |->
        text[CHOOSE i \in DOMAIN text : text[i][1] = k][2]]

FileAt(fs, path) == {f \in fs : f.path = path}

\* fs.writeFile(filePath, text): the file is created or overwritten.
writeFile(fs, path, text) == (fs \ FileAt(fs, path)) \cup {[path |-> path, text |-> text]}

\* getSession(id): the parsed file, or null when reading it throws.
getSession(fs, id) ==
    IF FileAt(fs, getSessionPath(id)) = {} THEN JsNull
    ELSE parse((CHOOSE f \in FileAt(fs, getSessionPath(id)) : TRUE).text)

\* saveSession(session)
saveSession(fs, session) == writeFile(fs, getSessionPath(session.id), stringify(session))

\* deleteSession(id): what fs.unlink leaves, and whether it succeeded.
deleteSession(fs, id) == fs \ FileAt(fs, getSessionPath(id))

deleted(fs, id) == FileAt(fs, getSessionPath(id)) # {}

Session(id, name, createdAt, updatedAt, messages) ==
    [id |-> id, name |-> name, createdAt |-> createdAt, updatedAt |-> updatedAt,
     messages |-> messages]

\* The bodies of PUT requests.
StoreSessions ==
    { WithField(Session(id, name, "t0", "t0", <<[type |-> "user", content |-> "hi"]>>),
                "sdkSessionId", sdk, "sdk1") :
        id \in StoreIds \cup {<< >>}, name \in {"n1", "n2"}, sdk \in BOOLEAN }

\* PUT /api/sessions/:id answers 400 when the body has no id or another id.
putAccepted(id, session) == session.id # << >> /\ session.id = id

StoreInit ==
    /\ readyState = [ws \in Conns |-> "OPEN"]
    /\ activeSessions = [ws \in Conns |-> NoCtl]
    /\ controllers = << >>
    /\ out = [ws \in Conns |-> << >>]
    /\ arrived = [ws \in Conns |-> << >>]
    /\ payloadOptions = NoOptions
    /\ sdkStream = << >>
    /\ transformed = << >>
    /\ NoBrowser

storeFrame == <<readyState, activeSessions, controllers, out, arrived, payloadOptions,
                sdkStream, transformed, hook, happened>>

\* app.put('/api/sessions/:id')
ApiPut(id, session) ==
    /\ files' = IF putAccepted(id, session) THEN saveSession(files, session) ELSE files
    /\ Cardinality(files') <= MaxFiles
    /\ UNCHANGED storeFrame

\* app.get('/api/sessions/:id'): answers getSession(id) or 404.
ApiGet(id) ==
    /\ UNCHANGED files
    /\ UNCHANGED storeFrame

\* app.delete('/api/sessions/:id'): answers by deleted(id).
ApiDelete(id) ==
    /\ files' = deleteSession(files, id)
    /\ UNCHANGED storeFrame

StoreNext ==
    \/ \E id \in StoreIds, session \in StoreSessions : ApiPut(id, session)
    \/ \E id \in StoreIds : ApiGet(id)
    \/ \E id \in StoreIds : ApiDelete(id)

SpecStore == StoreInit /\ [][StoreNext]_vars

\* C31: session store round trip.  For every id and record S, put(id, S)
\* followed by get(id) returns a record equal to S, whatever was stored
\* before; delete(id) followed by get(id) reports not-found, and delete
\* returns true exactly when a record existed.
C31_StoreRoundTrip ==
    [][ /\ \A id \in StoreIds, S \in StoreSessions :
            ApiPut(id, S) /\ putAccepted(id, S) => getSession(files', id) = S
        /\ \A id \in StoreIds :
            ApiDelete(id) =>
                /\ getSession(files', id) = JsNull
                /\ deleted(files, id) <=> getSession(files, id) # JsNull ]_vars

\* A record with a backend session id has been put over another record of
\* the same id.
C31_Witness ==
    \E id \in StoreIds :
        /\ getSession(files, id) # JsNull
        /\ getSession(files, id).id = id
        /\ getSession(files, id).name = "n2"
        /\ Has(getSession(files, id), "sdkSessionId")
        /\ Cardinality(files) = MaxFiles

\* C40: session store keys do not alias.  For two distinct ids, a put or a
\* delete of one never changes what get returns for the other.
C40_KeysDoNotAlias ==
    [][ \A a \in StoreIds : \A b \in StoreIds \ {a} :
            \/ \E S \in StoreSessions : ApiPut(a, S) /\ putAccepted(a, S)
            \/ ApiDelete(a)
            => getSession(files', b) = getSession(files, b) ]_vars

(***************************************************************************)
(* The registry of the relay and the controllers it has created.           *)
(***************************************************************************)
\* C37: the registry never maps a connection to a controller that has
\* already been closed, also after a create_session or resume_session whose
\* construction fails; so no controller is closed twice by the manager.
C37_BoundIsOpen ==
    /\ \A ws \in Conns :
          activeSessions[ws] # NoCtl => controllers[activeSessions[ws]].closed = 0
    /\ \A c \in CtlIds : controllers[c].closed <= 1

\* C38: no controller leak.  Once the disconnect handler of a connection has
\* run, every controller that was ever created for that connection has been
\* closed.
C38_NoControllerLeak ==
    \A ws \in Conns :
        readyState[ws] = "CLOSED" =>
            \A c \in CtlIds : controllers[c].ws = ws => controllers[c].closed >= 1

\* The connection went away with a second controller bound, after commands
\* had replaced the first one.
C38_Witness ==
    \E ws \in Conns :
        /\ readyState[ws] = "CLOSED"
        /\ Len(controllers) >= 2
        /\ \A c \in CtlIds : controllers[c].ws = ws /\ controllers[c].closed = 1
        /\ \E k \in 1..Len(out[ws]) : out[ws][k].msg.type = "start"

(***************************************************************************)
(* The stream consumer of the browser: the hook useWebSocket, the sockets  *)
(* it opens, its two timers and the session store it saves to.  Time is    *)
(* the number of things that have happened.                                *)
(***************************************************************************)
MaxHappened == 4   \* things that happen to one hook

\* generateSessionId(): the k-th id the page generates.
generateSessionId(k) == <<"s", <<"1", "2", "3", "4", "5", "6", "7", "8", "9">>[k]>>

\* generateSessionName(messages): the first user message, or 'New Session'.
generateSessionName(messages) ==
    LET users == SelectSeq(messages, LAMBDA m : m.type = "user")
    IN  IF users # << >> THEN users[1].content ELSE "New Session"

\* new Date().toISOString() at time t.
toISOString(t) == <<"iso", t>>

now == Len(happened)

\* The session an earlier page load has saved, with the id of its backend
\* session.
EarlierSession ==
    WithField(Session(<<"s", "0">>, "hi", toISOString(0), toISOString(0),
                      << [type |-> "user", content |-> "hi"],
                         [type |-> "text", content |-> "X"] >>),
              "sdkSessionId", TRUE, "sdk0")

NoTimer == [set |-> FALSE]

\* setTimeout(() => saveSession(messages, sessionId, sdkSessionId), 500)
SaveTimer(messages, sessionId, sdkSessionId) ==
    [set |-> TRUE, messages |-> messages, sessionId |-> sessionId,
     sdkSessionId |-> sdkSessionId]

\* The messages the server writes to a socket, and a frame that is no JSON.
ServerMessages ==
    { [type |-> "session_created"],
      [type |-> "session_resumed", sdkSessionId |-> "sdk1"],
      [type |-> "start", session_id |-> "sdk1"],
      [type |-> "text", content |-> "X"],
      [type |-> "end"],
      [type |-> "error", error |-> "E"] }

NotJson == [type |-> "not json"]

SessionMessageTypes == {"session_created", "session_resumed"}

\* A consumer whose flag an error message leaves alone.
onmessageIsProcessingUntilEnd(isProcessing, message) ==
    IF message.type = "start" THEN TRUE
    ELSE IF message.type = "end" THEN FALSE
    ELSE isProcessing

\* ws.onmessage: what a message that is added to the list does to
\* isProcessing.
onmessageIsProcessing(isProcessing, message) ==
    IF message.type = "start" THEN TRUE
    ELSE IF message.type \in {"end", "error"} THEN FALSE
    ELSE isProcessing

\* A handler that does not return after a session message.
onmessageNoReturn(h, message) ==
    [sdkSessionId |-> onmessageSdkSessionId(h.sdkSessionId, message),
     messages |-> Append(h.messages, message),
     isProcessing |-> onmessageIsProcessing(h.isProcessing, message)]

\* ws.onmessage: the state the handler sets for a parsed message.
onmessage(h, message) ==
    IF message.type \in SessionMessageTypes
    THEN [sdkSessionId |-> onmessageSdkSessionId(h.sdkSessionId, message)]
    ELSE [sdkSessionId |-> onmessageSdkSessionId(h.sdkSessionId, message),
          messages |-> Append(h.messages, message),
          isProcessing |-> onmessageIsProcessing(h.isProcessing, message)]

\* The auto-save effect after a render: when messages, sessionId or
\* sdkSessionId is another value than at the render before, the cleanup
\* clears the timer and a new one is set if there is a log to save.
autoSave(before, after) ==
    IF /\ after.messages = before.messages /\ ~after.replaced
       /\ after.sessionId = before.sessionId
       /\ after.sdkSessionId = before.sdkSessionId
    THEN before.saveTimer
    ELSE IF after.sessionId # << >> /\ after.messages # << >>
    THEN SaveTimer(after.messages, after.sessionId, after.sdkSessionId)
    ELSE NoTimer

\* The hook after its state setters have run and it has rendered again.
\* next gives the new values of the fields that were set; replaced says
\* that setMessages was given a new array.
render(next, replaced) ==
    LET after == [k \in DOMAIN hook |-> IF k \in DOMAIN next THEN next[k] ELSE hook[k]]
    IN  [after EXCEPT !.saveTimer =
            autoSave(hook, [messages |-> after.messages, sessionId |-> after.sessionId,
                            sdkSessionId |-> after.sdkSessionId, replaced |-> replaced])]

\* The state setters of a hook that is no longer mounted do nothing.
setState(next, replaced) == IF hook.mounted THEN render(next, replaced) ELSE hook

\* connect(): nothing if the socket of wsRef is open, else a new WebSocket.
connect(h) ==
    IF h.ws = "OPEN" THEN h
    ELSE [h EXCEPT !.ws = "CONNECTING", !.sockets = @ + 1,
                   !.status = IF h.mounted THEN "connecting" ELSE @]

\* The hook after its first render and its mount effect: connect(), a new
\* session id.
Mounted ==
    [mounted |-> TRUE, messages |-> << >>, status |-> "connecting", isProcessing |-> FALSE,
     sessionId |-> generateSessionId(1), generated |-> 1, sdkSessionId |-> JsNull,
     ws |-> "CONNECTING", sockets |-> 1, reconnectTimer |-> FALSE, saveTimer |-> NoTimer]

ClientInit ==
    /\ readyState = [ws \in Conns |-> "OPEN"]
    /\ activeSessions = [ws \in Conns |-> NoCtl]
    /\ controllers = << >>
    /\ out = [ws \in Conns |-> << >>]
    /\ arrived = [ws \in Conns |-> << >>]
    /\ payloadOptions = NoOptions
    /\ sdkStream = << >>
    /\ transformed = << >>
    /\ files = saveSession({}, EarlierSession)
    /\ hook = Mounted
    /\ happened = << >>

clientFrame == <<readyState, activeSessions, controllers, out, arrived, payloadOptions,
                 sdkStream, transformed>>

Happens(e) ==
    /\ Len(happened) < MaxHappened
    /\ happened' = Append(happened, e)

\* ws.onopen
wsOnopen ==
    /\ hook.ws = "CONNECTING"
    /\ Happens([op |-> "open"])
    /\ hook' = [setState([status |-> "connected"], FALSE) EXCEPT !.ws = "OPEN"]
    /\ UNCHANGED files
    /\ UNCHANGED clientFrame

\* ws.onmessage with a frame the server wrote.
wsOnmessage(message) ==
    /\ hook.ws = "OPEN" /\ hook.mounted
    /\ Happens([op |-> "message", message |-> message])
    /\ hook' = setState(onmessage(hook, message), FALSE)
    /\ UNCHANGED files
    /\ UNCHANGED clientFrame

\* ws.onmessage with a frame that is no JSON: JSON.parse throws, the catch
\* logs it.
wsOnmessageNotJson ==
    /\ hook.ws = "OPEN" /\ hook.mounted
    /\ Happens([op |-> "message", message |-> NotJson])
    /\ UNCHANGED <<hook, files>>
    /\ UNCHANGED clientFrame

\* ws.onclose: the socket has closed, by the server, by a failed connection
\* attempt or after ws.close().  The handler sets the reconnect timer.
wsOnclose ==
    /\ hook.ws \in {"CONNECTING", "OPEN", "CLOSING"}
    /\ Happens([op |-> "close"])
    /\ hook' = [setState([status |-> "disconnected", isProcessing |-> FALSE], FALSE)
                   EXCEPT !.ws = "CLOSED", !.reconnectTimer = TRUE]
    /\ UNCHANGED files
    /\ UNCHANGED clientFrame

\* ws.onerror
wsOnerror ==
    /\ hook.ws \in {"CONNECTING", "OPEN"}
    /\ Happens([op |-> "error"])
    /\ hook' = setState([status |-> "error"], FALSE)
    /\ UNCHANGED files
    /\ UNCHANGED clientFrame

\* The reconnect timer fires after 3000 ms: connect().
reconnectTimeout ==
    /\ hook.reconnectTimer
    /\ Happens([op |-> "reconnect"])
    /\ hook' = [connect(hook) EXCEPT !.reconnectTimer = FALSE]
    /\ UNCHANGED files
    /\ UNCHANGED clientFrame

\* send(prompt): the user message is echoed and the request written, if the
\* socket is open.
send(prompt) ==
    /\ hook.mounted /\ hook.ws = "OPEN"
    /\ Happens([op |-> "send", message |-> [type |-> "user", content |-> prompt]])
    /\ hook' = setState([messages |-> Append(hook.messages,
                                             [type |-> "user", content |-> prompt])], FALSE)
    /\ UNCHANGED files
    /\ UNCHANGED clientFrame

\* stop(), with the socket open.
stop ==
    /\ hook.mounted /\ hook.ws = "OPEN"
    /\ Happens([op |-> "stop"])
    /\ hook' = setState([isProcessing |-> FALSE], FALSE)
    /\ UNCHANGED files
    /\ UNCHANGED clientFrame

\* send(prompt) or stop() with no open socket: nothing is set.
notConnected ==
    /\ hook.mounted /\ hook.ws # "OPEN"
    /\ UNCHANGED <<hook, files, happened>>
    /\ UNCHANGED clientFrame

\* clearMessages()
clearMessages ==
    /\ hook.mounted
    /\ Happens([op |-> "clear"])
    /\ hook' = setState([messages |-> << >>, sdkSessionId |-> JsNull], TRUE)
    /\ UNCHANGED files
    /\ UNCHANGED clientFrame

\* createNewSession()
createNewSession ==
    /\ hook.mounted
    /\ Happens([op |-> "new"])
    /\ hook' = setState([sessionId |-> generateSessionId(hook.generated + 1),
                         generated |-> hook.generated + 1,
                         sdkSessionId |-> JsNull, messages |-> << >>,
                         isProcessing |-> FALSE], TRUE)
    /\ UNCHANGED files
    /\ UNCHANGED clientFrame

\* loadSession(id), when the response has arrived; a 404 sets nothing.
loadSession(id) ==
    /\ hook.mounted
    /\ LET session == getSession(files, id)
       IN  IF session = JsNull
           THEN /\ Happens([op |-> "not found"])
                /\ UNCHANGED hook
           ELSE /\ Happens([op |-> "load", messages |-> session.messages])
                /\ hook' = setState(
                     [sessionId |-> session.id, messages |-> session.messages,
                      isProcessing |-> FALSE,
                      sdkSessionId |->
                          IF Has(session, "sdkSessionId") /\ session.sdkSessionId # ""
                             /\ hook.ws = "OPEN"
                          THEN JsString(session.sdkSessionId) ELSE JsNull], TRUE)
    /\ UNCHANGED files
    /\ UNCHANGED clientFrame

\* The session object saveSession(msgs, id, sdkId) of the hook builds at
\* time t.
sessionToSave(msgs, id, sdkId, t) ==
    WithField(Session(id, generateSessionName(msgs), toISOString(t), toISOString(t), msgs),
              "sdkSessionId", sdkId.kind = "string", IF sdkId.kind = "string" THEN sdkId.v ELSE "")

\* The store after saveSession(msgs, id, sdkId) of the hook: nothing for an
\* empty log, else the PUT of the session object.
put(msgs, id, sdkId, t) ==
    IF msgs = << >> THEN files
    ELSE IF putAccepted(id, sessionToSave(msgs, id, sdkId, t))
    THEN saveSession(files, sessionToSave(msgs, id, sdkId, t))
    ELSE files

\* The auto-save timer fires after 500 ms.
saveTimeout ==
    /\ hook.saveTimer.set
    /\ Happens([op |-> "save"])
    /\ files' = put(hook.saveTimer.messages, hook.saveTimer.sessionId,
                    hook.saveTimer.sdkSessionId, now + 1)
    /\ hook' = [hook EXCEPT !.saveTimer = NoTimer]
    /\ UNCHANGED clientFrame

\* The hook is unmounted: the cleanups of its effects run.
unmount ==
    /\ hook.mounted
    /\ Happens([op |-> "unmount"])
    /\ hook' = [hook EXCEPT !.mounted = FALSE, !.reconnectTimer = FALSE,
                            !.saveTimer = NoTimer,
                            !.ws = IF @ \in {"CONNECTING", "OPEN"} THEN "CLOSING" ELSE @]
    /\ UNCHANGED files
    /\ UNCHANGED clientFrame

ClientNext ==
    \/ wsOnopen
    \/ \E message \in ServerMessages : wsOnmessage(message)
    \/ wsOnmessageNotJson
    \/ wsOnclose
    \/ wsOnerror
    \/ reconnectTimeout
    \/ send("hi")
    \/ stop
    \/ notConnected
    \/ clearMessages
    \/ createNewSession
    \/ \E id \in {<<"s", "0">>, <<"s", "1">>} : loadSession(id)
    \/ saveTimeout
    \/ unmount

SpecClient == ClientInit /\ [][ClientNext]_vars

\* Reading the history of the hook.
Ops(ops) == {i \in 1..Len(happened) : happened[i].op \in ops}

Latest(indices) == IF indices = {} THEN 0 ELSE CHOOSE i \in indices : \A j \in indices : j <= i

Received(types) ==
    {i \in Ops({"message"}) : happened[i].message.type \in types}

\* C32: client reconnection.  Once the consumer has been torn down no
\* reconnect timer is scheduled or fires and no further connection attempt
\* is made.
C32_NothingAfterTeardown ==
    ~hook.mounted =>
        /\ ~hook.reconnectTimer
        /\ \A i \in Ops({"unmount"}) : \A j \in Ops({"reconnect"}) : j < i

\* C33: after any sequence of received server messages, with no local stop,
\* disconnect or session switch in between, the processing flag is true
\* exactly when the most recent message among start, end and error was
\* start.
C33_ProcessingFlag ==
    hook.mounted =>
        LET local == Latest(Ops({"stop", "close", "new", "load"}))
            marks == {i \in Received({"start", "end", "error"}) : i > local}
        IN  hook.isProcessing <=>
                marks # {} /\ happened[Latest(marks)].message.type = "start"

\* An error message has ended a turn that a start message began.
C33_Witness ==
    /\ hook.mounted /\ ~hook.isProcessing
    /\ Len(happened) = 3
    /\ happened[2].op = "message" /\ happened[2].message.type = "start"
    /\ happened[3].op = "message" /\ happened[3].message.type = "error"

\* C34: session_created and session_resumed messages are never appended to
\* the log, every other received message is appended exactly once at the
\* end, so the log is the echoed user messages and the received non-session
\* messages in order of occurrence (since the log was last replaced).
C34_VisibleLog ==
    hook.mounted =>
        LET replaced == Latest(Ops({"clear", "new", "load"}))
            base == IF replaced # 0 /\ happened[replaced].op = "load"
                    THEN happened[replaced].messages ELSE << >>
            shown == SelectSeq(SubSeq(happened, replaced + 1, Len(happened)),
                               LAMBDA e : \/ e.op = "send"
                                          \/ /\ e.op = "message"
                                             /\ e.message \in ServerMessages
                                             /\ e.message.type \notin SessionMessageTypes)
        IN  hook.messages = base \o [i \in 1..Len(shown) |-> shown[i].message]

\* A prompt was echoed, then a session message and a text message arrived.
C34_Witness ==
    /\ hook.mounted
    /\ Len(hook.messages) = 2
    /\ hook.messages[1].type = "user" /\ hook.messages[2].type = "text"
    /\ Len(happened) = 4
    /\ happened[2].op = "send"
    /\ happened[3].op = "message" /\ happened[3].message.type \in SessionMessageTypes
    /\ happened[4].op = "message"

\* C35: debounced persistence.  Once the log has changed and no save is
\* pending any more, the record stored under the local session id carries
\* the complete current log.
C35_QuietLogIsStored ==
    hook.mounted /\ ~hook.saveTimer.set /\ getSession(files, hook.sessionId) # JsNull =>
        getSession(files, hook.sessionId).messages = hook.messages

\* C36: across the saves of one session id the stored id and createdAt keep
\* the values of the first save.
C36_CreatedOnce ==
    [][ \A id \in {<<"s", "0">>, generateSessionId(1), generateSessionId(2)} :
            getSession(files, id) # JsNull /\ getSession(files', id) # JsNull =>
                /\ getSession(files', id).id = getSession(files, id).id
                /\ getSession(files', id).createdAt = getSession(files, id).createdAt ]_vars

\* C39: loading a persisted session never destroys its resumability.  With
\* nothing done but loading sessions and letting the auto-save run, whatever
\* the socket does, the stored record keeps its backend session id.
C39_LoadKeepsBackendId ==
    Ops({"load", "not found", "save", "open", "close", "error", "reconnect"})
        = 1..Len(happened) =>
        /\ getSession(files, EarlierSession.id) # JsNull
        /\ Has(getSession(files, EarlierSession.id), "sdkSessionId")
        /\ getSession(files, EarlierSession.id).sdkSessionId = EarlierSession.sdkSessionId

====
